---- MODULE Spec2Model ----
(***************************************************************************)
(* Block I AGC simulator (yaAGC-Block1-Pultorak): the clock dispatcher     *)
(* genAGCStates and the operator driver loop of AGCmain.cpp, with the      *)
(* monitor switches of MON.cpp.  The subsystems AGCmain.cpp calls but that *)
(* are not part of the sources at hand (registers, TPG, SCL, CPM, CLK      *)
(* handlers, ADR, MEM) are modelled from the specification, on a reduced   *)
(* data path: word width WordBits, registers A, B, S, G, a small memory.   *)
(***************************************************************************)
EXTENDS Integers, Sequences, FiniteSets, TLC

\* ------------------------------------------------------------------ bounds
WordBits == 2      \* width of a data word and of the buses (16 in the machine)
MAXPULSES == 5     \* entries of glbl_cp[] (about 32 in the machine)
SclStages == 1     \* stages of the scaler (14 in the machine)
MaxKeys == 3       \* key presses other than F1 explored per run
MaxOwed == 2       \* cap of the count of strobes not yet answered by a tick
MaxSteps == 10     \* strobes followed from TP1 by the single-step scenario

MaxFileLen == 4    \* tokens of an object file given to loadMemory
LoadLo == 7        \* lowest address of the memory loadMemory writes (020 in the machine)
LoadHi == 9        \* highest address of that memory (031777 in the machine)
MaxWrites == 5     \* cap of the count of writeMemory calls of one loadMemory call
MaxRecords == 2    \* records of a memory image given to loadMemory
MaxReqs == 2       \* interrupt, +CNTR and -CNTR commands explored per run
MaxCalls == 3      \* calls of updateAGCDisplay explored per run
MaxLstLines == 25  \* lines of a listing file given to showSourceCode
BatchSize == 100   \* genStateCntr = 100

RECURSIVE Pow2(_)
Pow2(n) == IF n = 0 THEN 1 ELSE 2 * Pow2(n - 1)

WordMax == Pow2(WordBits) - 1
Word == 0 .. WordMax
SclMax == Pow2(SclStages) - 1

Min(a, b) == IF a < b THEN a ELSE b

\* bitwise inclusive OR, as the C operator |
RECURSIVE OR(_, _)
OR(a, b) ==
  IF a = 0 THEN b
  ELSE IF b = 0 THEN a
  ELSE (IF a % 2 = 1 \/ b % 2 = 1 THEN 1 ELSE 0) + 2 * OR(a \div 2, b \div 2)

\* one's complement within the word
Complement(a) == WordMax - a

\* odd parity bit of a word: the stored bit makes the number of ones odd
RECURSIVE Ones(_)
Ones(a) == IF a = 0 THEN 0 ELSE (a % 2) + Ones(a \div 2)
ParityBit(a) == (Ones(a) + 1) % 2

\* ------------------------------------------------------------------ state
VARIABLES
  MON,            \* monitor switches: PURST RUN STEP INST FCLK SA SCL_ENAB
  singleClock,    \* main: bool singleClock
  breakpointEnab, \* bool breakpointEnab
  breakpoint,     \* unsigned breakpoint
  watchEnab,      \* bool watchEnab
  watchAddr,      \* unsigned watchAddr
  oldWatchValue,  \* unsigned oldWatchValue
  ld,             \* loadMemory: the file, the stream position, addr, data, the memory it writes
  par,            \* PAR::register_PALM and the locations of memory that were loaded
  lst,            \* showSourceCode: the listing, the CADR, the stream position, foffset[], op, foundit, lineCount, the lines printed
  upd,            \* updateAGCDisplay: its statics, dskyChanged, what its latest call read and did
  req,            \* INT::rupt[], CTR::pcUp[], CTR::pcDn[], whether a store went outside them, the latest entry
  genStateCntr,   \* main: int genStateCntr
  pc,             \* position of main: "poll" (at while(!_kbhit())) or "batch" (in the do-while)
  slaveVal,       \* register outputs, as read() returns them
  masterVal,      \* register inputs, as write() sets them; clkAGC latches them
  mem,            \* memory words by address
  bus,            \* glbl_READ_BUS, glbl_WRITE_BUS, ALU glbl_BUS, MEM_DATA_BUS, MEM_PARITY_BUS
  glbl_cp,        \* SEQ::glbl_cp[0 .. MAXPULSES-1]
  calls,          \* the handler calls of the latest genAGCStates, in order
  last,           \* the latest step of main
  owed,           \* F1 strobes handled less ticks performed, while manual
  manual,         \* FCLK has been 0 since start
  stepsFromTP1,   \* strobes handled since the TPG stood in TP1 with INST=0, FCLK=0; -1: not followed
  nkeys           \* budgeted key presses so far

vars == << MON, singleClock, breakpointEnab, breakpoint,
           watchEnab, watchAddr, oldWatchValue, genStateCntr, pc,
           slaveVal, masterVal, mem, bus, glbl_cp, calls, last,
           owed, manual, stepsFromTP1, nkeys, ld, req, par, upd, lst >>

\* the state of the functions of main that are followed on their own
pureVars == << upd, lst >>

\* the state of the commands that main calls besides the clock loop
extVars == << ld, req, pureVars >>

\* the state of main and of the core
mainVars == << MON, singleClock, breakpointEnab, breakpoint,
               watchEnab, watchAddr, oldWatchValue, genStateCntr, pc,
               slaveVal, masterVal, mem, bus, glbl_cp, calls, last,
               owed, manual, stepsFromTP1, nkeys >>

NO_PULSE == "NO_PULSE"

TPs == << "TP1", "TP2", "TP3", "TP4", "TP5", "TP6",
          "TP7", "TP8", "TP9", "TP10", "TP11", "TP12" >>

TPindex(sg) == IF \E k \in 1 .. 12 : TPs[k] = sg
               THEN CHOOSE k \in 1 .. 12 : TPs[k] = sg
               ELSE 0

\* ------------------------------------------------------- registers, memory
\* reg::clk for every register: the outputs take the values written since
\* the last clock; masterVal is kept.
clkAGC(s) == [s EXCEPT !.slaveVal = s.masterVal]

write(s, r, v) == [s EXCEPT !.masterVal[r] = v]

\* ADR::getEffectiveAddress(): the address the S register selects
getEffectiveAddress(s) == s.slaveVal.S

readMemory(s, a) == IF a \in DOMAIN s.mem THEN s.mem[a] ELSE 0

writeMemory(s, a, d) == IF a \in DOMAIN s.mem THEN [s EXCEPT !.mem[a] = d] ELSE s

\* ------------------------------------------------------------------- CPM
\* The pulse list of a timing state: a reduced control pulse matrix keyed
\* by the timing pulse.  GENRST is issued in PWRON and STBY.
CPMTable(sg) ==
  CASE sg = "PWRON" -> << "GENRST" >>
    [] sg = "STBY"  -> << "GENRST" >>
    [] sg = "WAIT"  -> << >>
    [] sg = "TP1"   -> << "R1", "WB" >>
    [] sg = "TP2"   -> << "RC", "WA" >>
    [] sg = "TP3"   -> << "RB", "WG" >>
    [] sg = "TP4"   -> << "RA", "RG", "WS" >>
    [] sg = "TP5"   -> << "RG", "WE" >>
    [] sg = "TP6"   -> << "R1", "WS" >>
    [] sg = "TP7"   -> << "SBWG" >>
    [] sg = "TP8"   -> << >>
    [] sg = "TP9"   -> << "RA", "WB" >>
    [] sg = "TP10"  -> << "RC", "RA", "WG", "WS" >>
    [] sg = "TP11"  -> << "WE", "WA" >>
    [] sg = "TP12"  -> << "RG", "RA", "WB" >>

\* glbl_cp[] as an array indexed 0 .. MAXPULSES-1: the pulses, then NO_PULSE
Pad(l) == [i \in 0 .. MAXPULSES - 1 |-> IF i < Len(l) THEN l[i + 1] ELSE NO_PULSE]

\* as controlPulseMatrix, were it to leave the list without its terminator
controlPulseMatrix_unterminated(s) ==
  [i \in 0 .. MAXPULSES - 1 |->
     IF Pad(CPMTable(s.slaveVal.SG))[i] = NO_PULSE
     THEN "RA" ELSE Pad(CPMTable(s.slaveVal.SG))[i]]

controlPulseMatrix(s) == Pad(CPMTable(s.slaveVal.SG))

\* ---------------------------------------------------------- CLK handlers
log(s, phase, p) == [s EXCEPT !.calls = Append(@, << phase, p >>)]

\* read sweep: the pulse's source register is OR'ed onto the read bus
doexecR(s, p) ==
  CASE p = "RA" -> [s EXCEPT !.bus.glbl_READ_BUS = OR(@, s.slaveVal.A)]
    [] p = "RG" -> [s EXCEPT !.bus.glbl_READ_BUS = OR(@, s.slaveVal.G)]
    [] p = "SBWG" ->
         [s EXCEPT !.bus.MEM_DATA_BUS = OR(@, readMemory(s, getEffectiveAddress(s))),
                   !.bus.MEM_PARITY_BUS =
                      OR(@, ParityBit(readMemory(s, getEffectiveAddress(s))))]
    [] OTHER -> s

\* ALU read sweep: ALU registers compose the ALU bus
doexecR_ALU(s, p) ==
  CASE p = "RB" -> [s EXCEPT !.bus.ALU_BUS = OR(@, s.slaveVal.B)]
    [] p = "RC" -> [s EXCEPT !.bus.ALU_BUS = OR(@, Complement(s.slaveVal.B))]
    [] OTHER -> s

\* ALU OR sweep: ALU-derived contributions are OR'ed onto the write bus
doexecR_ALU_OR(s, p) ==
  CASE p = "RB" -> [s EXCEPT !.bus.glbl_WRITE_BUS = OR(@, s.bus.ALU_BUS)]
    [] p = "RC" -> [s EXCEPT !.bus.glbl_WRITE_BUS = OR(@, s.bus.ALU_BUS)]
    [] p = "R1" -> [s EXCEPT !.bus.glbl_WRITE_BUS = OR(@, 1)]
    [] OTHER -> s

\* the register a write pulse latches the write bus into
BusWriteDest(p) ==
  CASE p = "WA" -> "A" [] p = "WB" -> "B" [] p = "WS" -> "S" [] p = "WG" -> "G"
    [] OTHER -> "none"

\* write sweep: latch the write bus, or a computed value; memory stores
doexecW(s, p) ==
  CASE BusWriteDest(p) # "none" -> write(s, BusWriteDest(p), s.bus.glbl_WRITE_BUS)
    [] p = "SBWG" -> write(s, "G", s.bus.MEM_DATA_BUS)
    [] p = "WE" -> writeMemory(s, getEffectiveAddress(s), s.slaveVal.G)
    [] p = "GENRST" ->
         [s EXCEPT !.masterVal.A = 0, !.masterVal.B = 0,
                   !.masterVal.S = 0, !.masterVal.G = 0]
    [] OTHER -> s

\* ------------------------------------------------------------ SCL, TPG
doexecWP_SCL(s) ==
  IF s.MON.SCL_ENAB = 1
  THEN write(s, "SCL", (s.slaveVal.SCL + 1) % (SclMax + 1))
  ELSE s

doexecWP_F17(s) == write(s, "F17", IF s.slaveVal.SCL = SclMax THEN 1 ELSE 0)
doexecWP_F13(s) == write(s, "F13", (s.slaveVal.SCL \div Pow2(SclStages - 1)) % 2)
doexecWP_F10(s) == write(s, "F10", s.slaveVal.SCL % 2)

\* the timing state that follows sg
TPGnext(sg, mon) ==
  CASE sg = "PWRON" -> IF mon.PURST = 0 THEN "WAIT" ELSE "PWRON"
    [] sg = "STBY"  -> IF mon.PURST = 1 THEN "WAIT" ELSE "STBY"
    [] sg = "WAIT"  -> IF mon.SA = 1 THEN "STBY"
                       ELSE IF mon.RUN = 1 THEN "TP1" ELSE "WAIT"
    [] sg = "TP12"  -> IF mon.RUN = 1 THEN "TP1" ELSE "WAIT"
    [] OTHER        -> TPs[TPindex(sg) + 1]

doexecWP_TPG(s) == write(s, "SG", TPGnext(s.slaveVal.SG, s.MON))

\* ------------------------------------------------------- genAGCStates
\* as ClearBuses, were the read bus left as the previous call left it
ClearBuses_keepRead(s) ==
  [s EXCEPT !.bus.MEM_DATA_BUS = 0, !.bus.MEM_PARITY_BUS = 0]

\* lines 200-202: the read bus and the memory lines are cleared
ClearBuses(s) ==
  [s EXCEPT !.bus.glbl_READ_BUS = 0, !.bus.MEM_DATA_BUS = 0, !.bus.MEM_PARITY_BUS = 0]

\* line 214
ClearALUBus(s) == [s EXCEPT !.bus.ALU_BUS = 0]

\* as InitWriteBus, were the write bus cleared instead
InitWriteBus_clear(s) == [s EXCEPT !.bus.glbl_WRITE_BUS = 0]

\* line 219: in case nothing is logically OR'ed below
InitWriteBus(s) == [s EXCEPT !.bus.glbl_WRITE_BUS = s.bus.glbl_READ_BUS]

doexec(phase, s, p) ==
  CASE phase = "R"        -> doexecR(s, p)
    [] phase = "R_ALU"    -> doexecR_ALU(s, p)
    [] phase = "R_ALU_OR" -> doexecR_ALU_OR(s, p)
    [] phase = "W"        -> doexecW(s, p)

\* as Sweep, were the loop to run over all MAXPULSES entries
RECURSIVE Sweep_noStop(_, _, _)
Sweep_noStop(phase, s, i) ==
  IF i < MAXPULSES
  THEN Sweep_noStop(phase, doexec(phase, log(s, phase, s.glbl_cp[i]), s.glbl_cp[i]), i + 1)
  ELSE s

\* for (i = 0; i < MAXPULSES && SEQ::glbl_cp[i] != NO_PULSE; i++) doexec..(glbl_cp[i])
RECURSIVE Sweep(_, _, _)
Sweep(phase, s, i) ==
  IF i < MAXPULSES /\ s.glbl_cp[i] # NO_PULSE
  THEN Sweep(phase, doexec(phase, log(s, phase, s.glbl_cp[i]), s.glbl_cp[i]), i + 1)
  ELSE s

\* as Sweeps, were the write sweep run before the ALU OR sweep
Sweeps_writeEarly(s) ==
  LET s1 == Sweep("R", ClearBuses(s), 0)
      s2 == Sweep("R_ALU", ClearALUBus(s1), 0)
      s3 == Sweep("W", InitWriteBus(s2), 0)
  IN  Sweep("R_ALU_OR", s3, 0)

\* as Sweeps, were every pulse taken through its four handlers in one loop
RECURSIVE OnePass(_, _)
OnePass(s, i) ==
  IF i < MAXPULSES /\ s.glbl_cp[i] # NO_PULSE
  THEN LET p  == s.glbl_cp[i]
           s1 == doexecR(log(s, "R", p), p)
           s2 == doexecR_ALU(log(s1, "R_ALU", p), p)
           s3 == doexecR_ALU_OR(log(InitWriteBus(s2), "R_ALU_OR", p), p)
       IN  OnePass(doexecW(log(s3, "W", p), p), i + 1)
  ELSE s

Sweeps_onePass(s) == OnePass(ClearALUBus(ClearBuses(s)), 0)

\* as Sweeps, were the write loop to start at the second entry
Sweeps_skipFirst(s) ==
  LET s1 == Sweep("R", ClearBuses(s), 0)
      s2 == Sweep("R_ALU", ClearALUBus(s1), 0)
      s3 == Sweep("R_ALU_OR", InitWriteBus(s2), 0)
  IN  Sweep("W", s3, 1)

\* the four sweeps over the current pulse list, with the bus set-up between them
Sweeps(s) ==
  LET s1 == Sweep("R", ClearBuses(s), 0)
      s2 == Sweep("R_ALU", ClearALUBus(s1), 0)
      s3 == Sweep("R_ALU_OR", InitWriteBus(s2), 0)
  IN  Sweep("W", s3, 0)

\* as AlwaysPulses, were the timing state advanced before the scaler pulses
AlwaysPulses_TPGfirst(s) ==
  LET s0 == doexecWP_TPG(log(s, "WP", "TPG"))
      s1 == doexecWP_SCL(log(s0, "WP", "SCL"))
      s2 == doexecWP_F17(log(s1, "WP", "F17"))
      s3 == doexecWP_F13(log(s2, "WP", "F13"))
  IN  doexecWP_F10(log(s3, "WP", "F10"))

\* lines 232-237: always execute these pulses
AlwaysPulses(s) ==
  LET s1 == doexecWP_SCL(log(s, "WP", "SCL"))
      s2 == doexecWP_F17(log(s1, "WP", "F17"))
      s3 == doexecWP_F13(log(s2, "WP", "F13"))
      s4 == doexecWP_F10(log(s3, "WP", "F10"))
  IN  doexecWP_TPG(log(s4, "WP", "TPG"))

\* steps 3.. of genAGCStates on the pulse list cp
Execute(s, cp) == AlwaysPulses(Sweeps([s EXCEPT !.glbl_cp = cp, !.calls = << >>]))

genAGCStates(s) == Execute(s, controlPulseMatrix(s))

\* ------------------------------------------------------------ the display
\* the parity alarm is clear and no location is loaded when main starts
par0 == [PALM |-> 0, loaded |-> {}]

\* MEM::readMemory(a) on the parity alarm: the read of a location that was
\* not loaded sets PALM
readMemoryPALM(p, a) == IF a \in p.loaded THEN p ELSE [p EXCEPT !.PALM = 1]

\* PAR::CLR_PALM()
CLR_PALM(p) == [p EXCEPT !.PALM = 0]

\* the locations MON::displayAGC reads: 020-027 and 034-056
DispAddrs == (16 .. 23) \cup (28 .. 46)

\* MON::displayAGC(): prints; among what it prints are the words
\* MEM::readMemory returns for the locations of DispAddrs
displayAGC(p) ==
  [p EXCEPT !.PALM = IF \E a \in DispAddrs : readMemoryPALM(p, a).PALM = 1
                     THEN 1 ELSE @]

\* updateAGCDisplay() at the end of a batch, on the alarm: with the clock
\* manual the display is always updated, with the fast clock it is updated
\* or not (elapsed time, DSKY changes, the statics)
displayAfterBatch(p, fclk, shown) ==
  IF fclk = 0 \/ shown THEN displayAGC(p) ELSE p

\* clockCounter > 500 (line 475)
ClockCounterMax == 500

\* the statics of updateAGCDisplay and dskyChanged when main starts; the
\* fields FCLK .. elapsed are what the latest call read, shown whether it
\* called MON::displayAGC, n the count of calls
upd0 ==
  [displayTimeout |-> FALSE, clockCounter |-> 0, displayOnce |-> FALSE,
   dskyChanged |-> FALSE,
   FCLK |-> 0, RUN |-> 0, SG |-> "PWRON", SNI |-> 0, elapsed |-> FALSE,
   shown |-> FALSE, n |-> 0]

\* updateAGCDisplay() (lines 457-505) on its statics, reading FCLK, RUN, the
\* timing state, SNI and whether checkElapsedTime(2) returns true
updateAGCDisplay(u, fclk, run, sg, sni, elapsed) ==
  LET timeout == u.displayTimeout \/ elapsed
      u1 == [u EXCEPT !.displayTimeout = timeout, !.FCLK = fclk, !.RUN = run,
                      !.SG = sg, !.SNI = sni, !.elapsed = elapsed,
                      !.shown = FALSE, !.n = @ + 1]
      cc == u.clockCounter + 1
  IN  IF fclk # 0
      THEN IF run # 0
           THEN IF timeout \/ u.dskyChanged
                THEN IF \/ sg = "TP12" /\ sni = 1
                        \/ sg = "STBY"
                        \/ cc > ClockCounterMax
                        \/ u.dskyChanged
                     THEN [u1 EXCEPT !.shown = TRUE, !.displayTimeout = FALSE,
                                     !.clockCounter = 0, !.dskyChanged = FALSE]
                     ELSE [u1 EXCEPT !.clockCounter = cc]
                ELSE u1
           ELSE IF sg = "WAIT"
                THEN IF ~u.displayOnce
                     THEN [u1 EXCEPT !.shown = TRUE, !.displayOnce = TRUE,
                                     !.clockCounter = 0]
                     ELSE u1
                ELSE [u1 EXCEPT !.displayOnce = FALSE]
      ELSE [u1 EXCEPT !.shown = TRUE]

\* ------------------------------------------------------------- the driver
\* the core as one value, for the operators above
Core ==
  [MON |-> MON, slaveVal |-> slaveVal, masterVal |-> masterVal, mem |-> mem,
   bus |-> bus, glbl_cp |-> glbl_cp, calls |-> calls]

SetCore(s) ==
  /\ MON' = s.MON
  /\ slaveVal' = s.slaveVal
  /\ masterVal' = s.masterVal
  /\ mem' = s.mem
  /\ bus' = s.bus
  /\ glbl_cp' = s.glbl_cp
  /\ calls' = s.calls

coreVars == << MON, slaveVal, masterVal, mem, bus, glbl_cp, calls >>

Reg0 == [SG |-> "PWRON", A |-> 0, B |-> 0, S |-> 0, G |-> 0,
         SCL |-> 0, F17 |-> 0, F13 |-> 0, F10 |-> 0]

\* MON.cpp lines 44-52
MON0 == [PURST |-> 1, RUN |-> 0, STEP |-> 0, INST |-> 1, FCLK |-> 0,
         SA |-> 0, SCL_ENAB |-> 1]

Core0 ==
  [MON |-> MON0, slaveVal |-> Reg0, masterVal |-> Reg0,
   mem |-> [a \in Word |-> 0],
   bus |-> [glbl_READ_BUS |-> 0, glbl_WRITE_BUS |-> 0, ALU_BUS |-> 0,
            MEM_DATA_BUS |-> 0, MEM_PARITY_BUS |-> 0],
   glbl_cp |-> Pad(<< >>), calls |-> << >>]

\* ---------------------------------------------------------- object files
\* A file is a sequence of whitespace-separated tokens, a token a sequence of
\* characters, the characters being the decimal digits: 0..7 are the octal
\* digits, 8 and 9 stand for any character that %o does not accept.
OctDigits == 0 .. 7

\* fscanf's return value at end of file
EOF == 0 - 1

\* the number of octal digits a token starts with, from position i
RECURSIVE OctPrefixLen(_, _)
OctPrefixLen(tok, i) ==
  IF i <= Len(tok) /\ tok[i] \in OctDigits THEN 1 + OctPrefixLen(tok, i + 1) ELSE 0

\* %o: the value of a sequence of octal digits
RECURSIVE OctValue(_)
OctValue(ds) ==
  IF ds = << >> THEN 0
  ELSE 8 * OctValue(SubSeq(ds, 1, Len(ds) - 1)) + ds[Len(ds)]

\* the octal digits of v, most significant first
RECURSIVE ToOctal(_)
ToOctal(v) == IF v < 8 THEN << v >> ELSE Append(ToOctal(v \div 8), v % 8)

RECURSIVE ZeroPad(_, _)
ZeroPad(ds, w) == IF Len(ds) >= w THEN ds ELSE ZeroPad(<< 0 >> \o ds, w)

\* as Format6o, were the number printed in decimal
Format6d(v) == ZeroPad(IF v < 10 THEN << v >> ELSE << v \div 10, v % 10 >>, 6)

\* sprintf "%06o"
Format6o(v) == ZeroPad(ToOctal(v), 6)

\* one %o conversion on the stream: [ok, val, rest]; what follows the octal
\* digits of a token stays in the stream
ScanOctal(rest) ==
  IF rest = << >> THEN [ok |-> FALSE, eof |-> TRUE, val |-> 0, rest |-> rest]
  ELSE LET tok == Head(rest)
           k   == OctPrefixLen(tok, 1)
       IN  IF k = 0
           THEN [ok |-> FALSE, eof |-> FALSE, val |-> 0, rest |-> rest]
           ELSE [ok |-> TRUE, eof |-> FALSE,
                 val |-> OctValue(SubSeq(tok, 1, k)),
                 rest |-> IF k = Len(tok) THEN Tail(rest)
                          ELSE << SubSeq(tok, k + 1, Len(tok)) >> \o Tail(rest)]

\* fscanf(fp, "%o %o", &addr, &data): the number of conversions made, EOF when
\* the input ends before the first; a variable not converted keeps its value
fscanf(rest, addr, data) ==
  LET c1 == ScanOctal(rest)
      c2 == ScanOctal(c1.rest)
  IN  IF ~c1.ok
      THEN [ret |-> IF c1.eof THEN EOF ELSE 0,
            rest |-> rest, addr |-> addr, data |-> data]
      ELSE IF ~c2.ok
      THEN [ret |-> 1, rest |-> c1.rest, addr |-> c1.val, data |-> data]
      ELSE [ret |-> 2, rest |-> c2.rest, addr |-> c1.val, data |-> c2.val]

LoadAddrs == LoadLo .. LoadHi

\* saveMemory: one record per address, ascending, as "%06o %06o\n"
RECURSIVE saveMemory(_, _)
saveMemory(m, a) ==
  IF a > LoadHi THEN << >>
  ELSE << Format6o(a), Format6o(readMemory([mem |-> m], a)) >> \o saveMemory(m, a + 1)

\* ------------------------------------------------------- showSourceCode
colLen == 5        \* const int colLen = 5
maxLines == 23     \* const int maxLines = 23
noffset == 10      \* const int noffset = 10

\* sprintf(CADR, "%05o", ...)
Format5o(v) == ZeroPad(ToOctal(v), colLen)

\* strncpy(valString, s + startCol, colLen): the first five columns of a line
FirstCols(line) == SubSeq(line, 1, Min(Len(line), colLen))

\* showSourceCode is not running
lstIdle ==
  [pc |-> "idle", opens |-> TRUE, file |-> << >>, nl |-> TRUE, cadr |-> 0,
   pos |-> 0, eof |-> FALSE, op |-> 0, foffset |-> [k \in 0 .. noffset - 1 |-> 0],
   foundit |-> FALSE, lineCount |-> 0, out |-> << >>, passes |-> 0]

\* as ShowPass, were the file repositioned to the offset saved last
ShowPass_lastOffset(l) ==
  LET l1   == IF ~l.foundit
              THEN [l EXCEPT !.foffset[l.op] = l.pos, !.op = (l.op + 1) % noffset]
              ELSE l
      got  == l1.pos < Len(l1.file)
      line == l1.file[l1.pos + 1]
      l2   == IF got
              THEN [l1 EXCEPT !.pos = @ + 1,
                              !.eof = (l1.pos + 1 = Len(l1.file) /\ ~l1.nl)]
              ELSE [l1 EXCEPT !.eof = TRUE]
      l3   == [l2 EXCEPT !.passes = @ + 1]
      hit  == FirstCols(line) = Format5o(l.cadr)
  IN  IF ~got THEN l3
      ELSE IF l3.foundit
      THEN LET l4 == [l3 EXCEPT !.out = Append(@, << IF hit THEN ">" ELSE " ", l1.pos >>),
                                !.lineCount = @ + 1]
           IN  IF l4.lineCount >= maxLines THEN [l4 EXCEPT !.pc = "done"] ELSE l4
      ELSE IF hit
      THEN [l3 EXCEPT !.foundit = TRUE,
                      !.pos = l3.foffset[(l3.op + noffset - 1) % noffset],
                      !.eof = FALSE]
      ELSE l3

\* one pass of while (!feof(fp)) (lines 592-633); a line is the sequence of
\* its characters, the stream position the index of the next line, and a
\* line printed is kept in out with its mark and its index
ShowPass(l) ==
  LET l1   == IF ~l.foundit
              THEN [l EXCEPT !.foffset[l.op] = l.pos, !.op = (l.op + 1) % noffset]
              ELSE l
      got  == l1.pos < Len(l1.file)
      line == l1.file[l1.pos + 1]
      l2   == IF got
              THEN [l1 EXCEPT !.pos = @ + 1,
                              !.eof = (l1.pos + 1 = Len(l1.file) /\ ~l1.nl)]
              ELSE [l1 EXCEPT !.eof = TRUE]
      l3   == [l2 EXCEPT !.passes = @ + 1]
      hit  == FirstCols(line) = Format5o(l.cadr)
  IN  IF ~got THEN l3
      ELSE IF l3.foundit
      THEN LET l4 == [l3 EXCEPT !.out = Append(@, << IF hit THEN ">" ELSE " ", l1.pos >>),
                                !.lineCount = @ + 1]
           IN  IF l4.lineCount >= maxLines THEN [l4 EXCEPT !.pc = "done"] ELSE l4
      ELSE IF hit
      THEN [l3 EXCEPT !.foundit = TRUE, !.pos = l3.foffset[l3.op], !.eof = FALSE]
      ELSE l3

\* -------------------------------------------------------- request lines
\* INT::rupt[0..4] and CTR::pcUp[0..6], CTR::pcDn[0..6]
NRupt == 5
NCtr == 7

\* no line raised, nothing written outside the arrays
req0 ==
  [rupt |-> [k \in 0 .. NRupt - 1 |-> 0],
   pcUp |-> [k \in 0 .. NCtr - 1 |-> 0],
   pcDn |-> [k \in 0 .. NCtr - 1 |-> 0],
   oob |-> FALSE, entry |-> << >>, n |-> 0]

\* The text the operator enters: characters 0..9 are the decimal digits, 10 is
\* '-', 11 any other character.
RECURSIVE DecPrefix(_, _, _)
DecPrefix(e, i, acc) ==
  IF i <= Len(e) /\ e[i] \in 0 .. 9 THEN DecPrefix(e, i + 1, 10 * acc + e[i]) ELSE acc

\* atoi: an optional sign and the decimal digits that follow; 0 without digits
atoi(e) ==
  IF e # << >> /\ e[1] = 10 THEN 0 - DecPrefix(e, 2, 0) ELSE DecPrefix(e, 1, 0)

\* what a store outside an array may hit: nothing that is modelled, or a line
NoLine == [arr |-> "none", k |-> 0]

\* the outcomes tried for a store at index k of arr: inside the array the
\* store itself; outside, nothing modelled or the first line of an array
Victims(r, arr, k) ==
  IF k \in DOMAIN r[arr] THEN {NoLine}
  ELSE {NoLine} \cup { [arr |-> a, k |-> 0] : a \in {"rupt", "pcUp", "pcDn"} }

\* as StoreLine, were the line counted up instead of set
StoreLine_count(r, arr, k, victim) ==
  IF k \in DOMAIN r[arr] THEN [r EXCEPT ![arr][k] = @ + 1]
  ELSE [r EXCEPT !.oob = TRUE]

\* arr[k] = 1; outside the array the store is undefined behaviour, and lands
\* on the victim
StoreLine(r, arr, k, victim) ==
  IF k \in DOMAIN r[arr] THEN [r EXCEPT ![arr][k] = 1]
  ELSE IF victim = NoLine THEN [r EXCEPT !.oob = TRUE]
  ELSE [r EXCEPT !.oob = TRUE, ![victim.arr][victim.k] = 1]

\* no loadMemory call in progress
ldIdle ==
  [pc |-> "idle", opens |-> TRUE, file |-> << >>, rest |-> << >>,
   addr |-> 0, data |-> 0, mem |-> [a \in LoadAddrs |-> 0],
   mem0 |-> [a \in LoadAddrs |-> 0], writes |-> 0]

\* the strobes followed from TP1 (single step by pulse), after a step of main
Follow(prev, isStrobe, sg, mon, sc) ==
  IF mon.INST # 0 \/ mon.FCLK # 0 THEN -1
  ELSE IF isStrobe THEN (IF prev >= 0 /\ prev < MaxSteps THEN prev + 1 ELSE -1)
  ELSE IF prev >= 0 THEN prev
  ELSE IF sg = "TP1" /\ ~sc THEN 0 ELSE -1

\* main, up to the loop: genAGCStates(); MON::displayAGC();
InitMain ==
  /\ MON = genAGCStates(Core0).MON
  /\ slaveVal = genAGCStates(Core0).slaveVal
  /\ masterVal = genAGCStates(Core0).masterVal
  /\ mem = genAGCStates(Core0).mem
  /\ bus = genAGCStates(Core0).bus
  /\ glbl_cp = genAGCStates(Core0).glbl_cp
  /\ calls = genAGCStates(Core0).calls
  /\ singleClock = FALSE
  /\ breakpointEnab = FALSE
  /\ breakpoint = 0
  /\ watchEnab = FALSE
  /\ watchAddr = 0
  /\ oldWatchValue = 0
  /\ genStateCntr = 0
  /\ pc = "poll"
  /\ last = "init"
  /\ owed = 0
  /\ manual = TRUE
  /\ stepsFromTP1 = -1
  /\ nkeys = 0

\* main has called genAGCStates and MON::displayAGC (lines 653-654)
Init ==
  /\ InitMain
  /\ ld = ldIdle
  /\ req = req0
  /\ par = displayAGC(par0)
  /\ upd = upd0
  /\ lst = lstIdle

\* as ContinueBatch, were RUN left out of the loop condition
ContinueBatch_ignoreRun(fclk, run, cntr) == fclk # 0 /\ cntr > 0

\* as ContinueBatch, were the counter compared with >= 0
ContinueBatch_offByOne(fclk, run, cntr) == fclk # 0 /\ run # 0 /\ cntr >= 0

\* line 706: while (MON::FCLK && MON::RUN && genStateCntr > 0)
ContinueBatch(fclk, run, cntr) == fclk # 0 /\ run # 0 /\ cntr > 0

\* as BreakpointCheck, were the address compared also with the breakpoint off
BreakpointCheck_noEnab(s) ==
  IF breakpoint = getEffectiveAddress(s)
  THEN [s EXCEPT !.MON.RUN = 0]
  ELSE s

\* lines 687-691: the breakpoint check after a tick
BreakpointCheck(s) ==
  IF breakpointEnab /\ breakpoint = getEffectiveAddress(s)
  THEN [s EXCEPT !.MON.RUN = 0]
  ELSE s

\* as WatchCheck, were a changed word not to halt
WatchCheck_noHalt(s) == s

\* lines 695-703: the watch check after a tick
WatchCheck(s) ==
  IF watchEnab /\ readMemory(s, watchAddr) # oldWatchValue
  THEN [s EXCEPT !.MON.RUN = 0]
  ELSE s

\* as ClearStep, were the release of STEP to halt the machine as well
ClearStep_halts(s) ==
  IF s.MON.STEP # 0 /\ s.slaveVal.SG = "TP1"
  THEN [s EXCEPT !.MON.STEP = 0, !.MON.RUN = 0]
  ELSE s

\* as ClearStep, were STEP released in every timing state
ClearStep_anyTP(s) ==
  IF s.MON.STEP # 0 THEN [s EXCEPT !.MON.STEP = 0] ELSE s

\* lines 713-714: clear the single step switch on TP1
ClearStep(s) ==
  IF s.MON.STEP # 0 /\ s.slaveVal.SG = "TP1" THEN [s EXCEPT !.MON.STEP = 0] ELSE s

driverVars == << singleClock, breakpointEnab, breakpoint,
                watchEnab, watchAddr, oldWatchValue, genStateCntr, pc >>

watchVars == << watchEnab, watchAddr, oldWatchValue >>

\* One pass of the do-while body (lines 676-706).  From "poll" it is the first
\* pass of a batch, entered when no key is pending and FCLK or singleClock is
\* set; when the loop condition fails the batch ends (updateAGCDisplay, the
\* STEP release) and main is back at the keyboard poll.
Tick ==
  /\ \/ pc = "poll" /\ (MON.FCLK # 0 \/ singleClock)
     \/ pc = "batch"
  /\ LET cntr0 == IF pc = "poll" THEN BatchSize ELSE genStateCntr
         s1    == WatchCheck(BreakpointCheck(genAGCStates(clkAGC(Core))))
         cntr  == cntr0 - 1
         cont  == ContinueBatch(s1.MON.FCLK, s1.MON.RUN, cntr)
         s2    == IF cont THEN s1 ELSE ClearStep(s1)
     IN  /\ SetCore(s2)
         /\ genStateCntr' = cntr
         /\ pc' = IF cont THEN "batch" ELSE "poll"
         /\ stepsFromTP1' = Follow(stepsFromTP1, FALSE, s2.slaveVal.SG, s2.MON, FALSE)
         /\ LET p1 == IF watchEnab THEN readMemoryPALM(par, watchAddr) ELSE par
            IN  IF cont THEN par' = p1
                ELSE \E shown \in BOOLEAN :
                       par' = displayAfterBatch(p1, s1.MON.FCLK, shown)
  /\ singleClock' = FALSE
  /\ last' = "tick"
  /\ owed' = IF manual THEN owed - 1 ELSE owed
  /\ oldWatchValue' = IF watchEnab
                      THEN readMemory(genAGCStates(clkAGC(Core)), watchAddr)
                      ELSE oldWatchValue
  /\ UNCHANGED << breakpointEnab, breakpoint, watchEnab, watchAddr,
                  manual, nkeys >>
  /\ UNCHANGED extVars

\* an iteration of while(!_kbhit()) with the clock off: only the STEP release
PollIdle ==
  /\ pc = "poll"
  /\ MON.FCLK = 0 /\ ~singleClock
  /\ ClearStep(Core) # Core
  /\ SetCore(ClearStep(Core))
  /\ last' = "idle"
  /\ UNCHANGED << driverVars, owed, manual, stepsFromTP1, nkeys >>
  /\ UNCHANGED << extVars, par >>

\* the keys 'c' 'r' 's' 'a' 'n' 'p': flip the switch, genAGCStates, display
SwitchOf(key) ==
  CASE key = "c" -> "SCL_ENAB" [] key = "r" -> "RUN" [] key = "s" -> "STEP"
    [] key = "a" -> "SA" [] key = "n" -> "INST" [] key = "p" -> "PURST"

SwitchKeys == {"c", "r", "s", "a", "n", "p"}

\* as KeySwitch, were the key to set its switch instead of flipping it
KeySwitch_set(key) ==
  /\ pc = "poll"
  /\ nkeys < MaxKeys
  /\ LET sw == SwitchOf(key)
         s1 == genAGCStates([Core EXCEPT !.MON[sw] = 1])
     IN  /\ SetCore(s1)
         /\ stepsFromTP1' = Follow(stepsFromTP1, FALSE, s1.slaveVal.SG, s1.MON, singleClock)
         /\ par' = IF key \in {"r", "s"} /\ s1.MON.FCLK # 0 THEN par
                   ELSE displayAGC(par)
  /\ last' = key
  /\ nkeys' = nkeys + 1
  /\ UNCHANGED << driverVars, owed, manual >>
  /\ UNCHANGED extVars

\* lines 778-814
KeySwitch(key) ==
  /\ pc = "poll"
  /\ nkeys < MaxKeys
  /\ LET sw == SwitchOf(key)
         s1 == genAGCStates([Core EXCEPT !.MON[sw] = (@ + 1) % 2])
     IN  /\ SetCore(s1)
         /\ stepsFromTP1' = Follow(stepsFromTP1, FALSE, s1.slaveVal.SG, s1.MON, singleClock)
         /\ par' = IF key \in {"r", "s"} /\ s1.MON.FCLK # 0 THEN par
                   ELSE displayAGC(par)
  /\ last' = key
  /\ nkeys' = nkeys + 1
  /\ UNCHANGED << driverVars, owed, manual >>
  /\ UNCHANGED extVars

\* as KeyD, were the refresh to clock the machine first, as a tick does
KeyD_clocked ==
  /\ pc = "poll"
  /\ nkeys < MaxKeys
  /\ SetCore(genAGCStates(clkAGC(Core)))
  /\ par' = displayAGC(par)
  /\ last' = "d"
  /\ nkeys' = nkeys + 1
  /\ UNCHANGED << driverVars, owed, manual, stepsFromTP1 >>
  /\ UNCHANGED extVars

\* 'd': genAGCStates(); MON::displayAGC();
KeyD ==
  /\ pc = "poll"
  /\ nkeys < MaxKeys
  /\ SetCore(genAGCStates(Core))
  /\ par' = displayAGC(par)
  /\ last' = "d"
  /\ nkeys' = nkeys + 1
  /\ UNCHANGED << driverVars, owed, manual, stepsFromTP1 >>
  /\ UNCHANGED extVars

\* 'z' and 'x' (lines 766-776): the toggle of the tap is commented out;
\* genAGCStates(); MON::displayAGC();
KeyXZ(key) ==
  /\ pc = "poll"
  /\ nkeys < MaxKeys
  /\ SetCore(genAGCStates(Core))
  /\ par' = displayAGC(par)
  /\ last' = key
  /\ nkeys' = nkeys + 1
  /\ UNCHANGED << driverVars, owed, manual, stepsFromTP1 >>
  /\ UNCHANGED extVars

\* F1: single clock pulse
KeyF1 ==
  /\ pc = "poll"
  /\ singleClock' = TRUE
  /\ last' = "F1"
  /\ owed' = IF manual THEN Min(owed + 1, MaxOwed) ELSE owed
  /\ stepsFromTP1' = Follow(stepsFromTP1, TRUE, slaveVal.SG, MON, TRUE)
  /\ UNCHANGED << coreVars, breakpointEnab, breakpoint, watchVars,
                  genStateCntr, pc, manual, nkeys >>
  /\ UNCHANGED << extVars, par >>

\* F2: manual clock (FCLK=0); F4: fast clock (FCLK=1)
KeyFCLK(v) ==
  /\ pc = "poll"
  /\ nkeys < MaxKeys
  /\ LET s1 == genAGCStates([Core EXCEPT !.MON.FCLK = v])
     IN  /\ SetCore(s1)
         /\ stepsFromTP1' = Follow(stepsFromTP1, FALSE, s1.slaveVal.SG, s1.MON, singleClock)
  /\ last' = IF v = 0 THEN "F2" ELSE "F4"
  /\ manual' = (manual /\ v = 0)
  /\ owed' = IF manual /\ v = 0 THEN owed ELSE 0
  /\ par' = displayAGC(par)
  /\ nkeys' = nkeys + 1
  /\ UNCHANGED driverVars
  /\ UNCHANGED extVars

\* 'b': toggleBreakpoint, the operator entering the address a
toggleBreakpoint(a) ==
  /\ pc = "poll"
  /\ nkeys < MaxKeys
  /\ IF ~breakpointEnab
     THEN breakpoint' = a /\ breakpointEnab' = TRUE
     ELSE breakpoint' = breakpoint /\ breakpointEnab' = FALSE
  /\ last' = "b"
  /\ nkeys' = nkeys + 1
  /\ UNCHANGED << coreVars, watchVars, singleClock, genStateCntr, pc,
                  owed, manual, stepsFromTP1 >>
  /\ UNCHANGED << extVars, par >>

\* 'y': toggleWatch, the operator entering the address a
toggleWatch(a) ==
  /\ pc = "poll"
  /\ nkeys < MaxKeys
  /\ IF ~watchEnab
     THEN /\ watchAddr' = a
          /\ watchEnab' = TRUE
          /\ oldWatchValue' = readMemory(Core, a)
          /\ par' = readMemoryPALM(par, a)
     ELSE /\ watchEnab' = FALSE
          /\ UNCHANGED << watchAddr, oldWatchValue, par >>
  /\ last' = "y"
  /\ nkeys' = nkeys + 1
  /\ UNCHANGED << coreVars, breakpointEnab, breakpoint, singleClock,
                  genStateCntr, pc, owed, manual, stepsFromTP1 >>
  /\ UNCHANGED extVars

\* as KeyOther, were an unknown function key taken for F1
KeyOther_asF1 ==
  /\ pc = "poll"
  /\ nkeys < MaxKeys
  /\ singleClock' = TRUE
  /\ last' = "other"
  /\ nkeys' = nkeys + 1
  /\ UNCHANGED << coreVars, breakpointEnab, breakpoint, watchVars,
                  genStateCntr, pc, owed, manual, stepsFromTP1 >>
  /\ UNCHANGED << extVars, par >>

\* ';' (lines 824-828): PAR::CLR_PALM(); MON::displayAGC();
KeyClrPALM ==
  /\ pc = "poll"
  /\ nkeys < MaxKeys
  /\ par' = displayAGC(CLR_PALM(par))
  /\ last' = ";"
  /\ nkeys' = nkeys + 1
  /\ UNCHANGED << coreVars, driverVars, owed, manual, stepsFromTP1 >>
  /\ UNCHANGED extVars

\* a key of the default case (lines 903-906, 910-913): echoed
KeyOther ==
  /\ pc = "poll"
  /\ nkeys < MaxKeys
  /\ last' = "other"
  /\ nkeys' = nkeys + 1
  /\ UNCHANGED << coreVars, driverVars, owed, manual, stepsFromTP1 >>
  /\ UNCHANGED << extVars, par >>

Next ==
  \/ Tick
  \/ PollIdle
  \/ \E key \in SwitchKeys : KeySwitch(key)
  \/ KeyD
  \/ \E key \in {"z", "x"} : KeyXZ(key)
  \/ KeyF1
  \/ \E v \in {0, 1} : KeyFCLK(v)
  \/ \E a \in Word : toggleBreakpoint(a)
  \/ \E a \in Word : toggleWatch(a)
  \/ KeyClrPALM
  \/ KeyOther

Spec == Init /\ [][Next]_vars

\* ------------------------------------------------------------- loadMemory
\* the tokens of the files tried: "7", "10", "11", "8" and "18"
LoadTokens == { << 7 >>, << 1, 0 >>, << 1, 1 >>, << 8 >>, << 1, 8 >> }

ArbitraryFiles == UNION { [1 .. n -> LoadTokens] : n \in 0 .. MaxFileLen }

\* memory images: records of address and word, the addresses distinct
ImageWords == {0, 8, 9}

Images ==
  { img \in UNION { [1 .. n -> [addr : LoadAddrs, word : ImageWords]] :
                      n \in 0 .. MaxRecords } :
      \A i, j \in DOMAIN img : img[i].addr = img[j].addr => i = j }

\* the object file of an image: "%06o %06o\n" per record
RECURSIVE FileOf(_)
FileOf(img) ==
  IF img = << >> THEN << >>
  ELSE << Format6o(Head(img).addr), Format6o(Head(img).word) >> \o FileOf(Tail(img))

\* the memories a call may find
StartImages == { [a \in LoadAddrs |-> 0], [a \in LoadAddrs |-> a + 1] }

\* the values addr and data may hold before the first fscanf: they are not
\* initialised
Uninit == {0, LoadHi}

\* at the call of loadMemory: the file named by the operator, whether it
\* opens, and the memory as it is
ldCall(f, o, a0, d0, m) ==
  [pc |-> "call", opens |-> o, file |-> f, rest |-> f,
   addr |-> a0, data |-> d0, mem |-> m, mem0 |-> m, writes |-> 0]

InitLoad ==
  /\ InitMain
  /\ \E m \in StartImages, o \in BOOLEAN, a0 \in Uninit, d0 \in Uninit :
       \E f \in ArbitraryFiles \cup { FileOf(img) : img \in Images }
                \cup { saveMemory(m, LoadLo) } :
         ld = ldCall(f, o, a0, d0, m)
  /\ req = req0
  /\ par = displayAGC(par0)
  /\ upd = upd0
  /\ lst = lstIdle

\* lines 357-372: fopen; on failure the error is reported and the call returns
loadMemory ==
  /\ ld.pc = "call"
  /\ ld' = [ld EXCEPT !.pc = IF ld.opens THEN "loop" ELSE "failed"]
  /\ UNCHANGED << mainVars, req, par, pureVars >>

\* lines 375-378: one pass of while (fscanf(...) != EOF) writeMemory(addr, data)
LoadStep ==
  /\ ld.pc = "loop"
  /\ LET r == fscanf(ld.rest, ld.addr, ld.data) IN
       /\ r.ret # EOF
       /\ ld' = [ld EXCEPT !.rest = r.rest, !.addr = r.addr, !.data = r.data,
                           !.mem = writeMemory([mem |-> ld.mem], r.addr, r.data).mem,
                           !.writes = Min(@ + 1, MaxWrites)]
  /\ UNCHANGED << mainVars, req, par, pureVars >>

\* lines 375, 379-380: fscanf returns EOF; fclose, "Memory loaded."
LoadDone ==
  /\ ld.pc = "loop"
  /\ fscanf(ld.rest, ld.addr, ld.data).ret = EOF
  /\ ld' = [ld EXCEPT !.pc = "done"]
  /\ UNCHANGED << mainVars, req, par, pureVars >>

NextLoad ==
  \/ loadMemory
  \/ LoadStep
  \/ LoadDone

SpecLoad == InitLoad /\ [][NextLoad]_vars

\* ------------------------------------------- interrupt, +CNTR and -CNTR
\* the entries tried: "", "x", "-1", "0", "1", "5", "6", "7", "19", "2x"
ReqEntries ==
  { << >>, << 11 >>, << 10, 1 >>, << 0 >>, << 1 >>, << 5 >>, << 6 >>, << 7 >>,
    << 1, 9 >>, << 2, 11 >> }

\* the frame of a command that writes a request line
ReqCommand(key) ==
  /\ pc = "poll"
  /\ req.n < MaxReqs
  /\ last' = key
  /\ UNCHANGED << coreVars, driverVars, owed, manual, stepsFromTP1, nkeys, ld, par, pureVars >>

\* ']': incrCntr, the operator entering e
incrCntr(e) ==
  /\ ReqCommand("]")
  /\ \E victim \in Victims(req, "pcUp", atoi(e)) :
       req' = [StoreLine(req, "pcUp", atoi(e), victim) EXCEPT !.n = @ + 1, !.entry = e]

\* '[': decrCntr, the operator entering e
decrCntr(e) ==
  /\ ReqCommand("[")
  /\ \E victim \in Victims(req, "pcDn", atoi(e)) :
       req' = [StoreLine(req, "pcDn", atoi(e), victim) EXCEPT !.n = @ + 1, !.entry = e]

\* 'i': interrupt, the operator entering e
interrupt(e) ==
  /\ ReqCommand("i")
  /\ \E victim \in Victims(req, "rupt", atoi(e) - 1) :
       req' = [StoreLine(req, "rupt", atoi(e) - 1, victim) EXCEPT !.n = @ + 1, !.entry = e]

\* main with the keys F1, F2, F4, 'd', ']', '[' and 'i'
NextReq ==
  \/ Tick
  \/ KeyD
  \/ KeyF1
  \/ \E v \in {0, 1} : KeyFCLK(v)
  \/ \E e \in ReqEntries : incrCntr(e)
  \/ \E e \in ReqEntries : decrCntr(e)
  \/ \E e \in ReqEntries : interrupt(e)

SpecReq == Init /\ [][NextReq]_vars

\* --------------------------------------------------------- updateAGCDisplay
\* the timing states the calls are tried in
UpdSGs == {"WAIT", "STBY", "TP1", "TP12"}

InitUpd ==
  /\ InitMain
  /\ ld = ldIdle
  /\ req = req0
  /\ par = displayAGC(par0)
  /\ \E c \in {0, ClockCounterMax - 1, ClockCounterMax} :
       upd = [upd0 EXCEPT !.clockCounter = c]
  /\ lst = lstIdle

\* the DSKY changes what it shows: dskyChanged = true
DskyChange ==
  /\ upd.n < MaxCalls
  /\ ~upd.dskyChanged
  /\ upd' = [upd EXCEPT !.dskyChanged = TRUE]
  /\ UNCHANGED << mainVars, ld, req, par, lst >>

\* a call of updateAGCDisplay() with the machine in the given mode and state
UpdateCall(fclk, run, sg, sni, elapsed) ==
  /\ upd.n < MaxCalls
  /\ upd' = updateAGCDisplay(upd, fclk, run, sg, sni, elapsed)
  /\ par' = IF upd'.shown THEN displayAGC(par) ELSE par
  /\ UNCHANGED << mainVars, ld, req, lst >>

NextUpd ==
  \/ DskyChange
  \/ \E fclk \in {0, 1}, run \in {0, 1}, sg \in UpdSGs, sni \in {0, 1},
        elapsed \in BOOLEAN : UpdateCall(fclk, run, sg, sni, elapsed)

SpecUpd == InitUpd /\ [][NextUpd]_vars

\* ---------------------------------------------------- showSourceCode calls
\* the effective addresses tried: 00001 and 00010
LstCADRs == {1, 8}

\* a line of the listing that is not the line of the address: an empty line,
\* the line of the next address, or a line of four columns
OtherLine(k, cadr) ==
  CASE k % 3 = 0 -> << >>
    [] k % 3 = 1 -> Format5o(cadr + 1) \o << 9 >>
    [] OTHER     -> SubSeq(Format5o(cadr), 1, colLen - 1)

\* the listings tried: n lines, the lines with the indices in M those of the
\* address
LstFile(n, M, cadr) ==
  [k \in 1 .. n |-> IF k - 1 \in M THEN Format5o(cadr) \o << 9, 9 >>
                    ELSE OtherLine(k, cadr)]

InitShow ==
  /\ InitMain
  /\ ld = ldIdle
  /\ req = req0
  /\ par = displayAGC(par0)
  /\ upd = upd0
  /\ \E n \in 0 .. MaxLstLines, cadr \in LstCADRs, nl \in BOOLEAN, o \in BOOLEAN :
       \E i \in 0 .. n : \E M \in { {}, {i}, {i, i + 1} } :
         /\ o \/ (n = 0 /\ nl /\ cadr = 1 /\ M = {})
         /\ M \subseteq 0 .. n - 1
         /\ lst = [lstIdle EXCEPT !.pc = "call", !.opens = o, !.nl = nl,
                                  !.cadr = cadr, !.file = LstFile(n, M, cadr)]

\* lines 558-571: fopen; on failure the error is reported and the call returns
showSourceCode ==
  /\ lst.pc = "call"
  /\ lst' = [lst EXCEPT !.pc = IF lst.opens THEN "loop" ELSE "failed"]
  /\ UNCHANGED << mainVars, ld, req, par, upd >>

\* lines 592-633: a pass of the loop
ShowStep ==
  /\ lst.pc = "loop"
  /\ ~lst.eof
  /\ lst' = ShowPass(lst)
  /\ UNCHANGED << mainVars, ld, req, par, upd >>

\* lines 592, 634: feof; fclose
ShowDone ==
  /\ lst.pc = "loop"
  /\ lst.eof
  /\ lst' = [lst EXCEPT !.pc = "done"]
  /\ UNCHANGED << mainVars, ld, req, par, upd >>

NextShow ==
  \/ showSourceCode
  \/ ShowStep
  \/ ShowDone

SpecShow == InitShow /\ [][NextShow]_vars

\* ------------------------------------------------------------ properties
\* the pulses of a list: the entries before its first NO_PULSE
RECURSIVE NPulses(_, _)
NPulses(cp, i) ==
  IF i < MAXPULSES /\ cp[i] # NO_PULSE THEN NPulses(cp, i + 1) ELSE i

PulseIdx == 0 .. NPulses(glbl_cp, 0) - 1

Rank(phase) ==
  CASE phase = "R" -> 1 [] phase = "R_ALU" -> 2 [] phase = "R_ALU_OR" -> 3
    [] phase = "W" -> 4 [] phase = "WP" -> 5

Bit(v, k) == (v \div Pow2(k)) % 2

ReadPulses == {"RA", "RG"}
AluOrPulses == {"RB", "RC", "R1"}

ReadSource(p) == IF p = "RA" THEN slaveVal.A ELSE slaveVal.G

\* C1: in the latest genAGCStates call every handler call of a sweep comes
\* before every handler call of the next sweep, in the order read, ALU read,
\* ALU OR, write, and each write pulse that latches the write bus has latched
\* the final WRITE_BUS.
C1_SweepOrder ==
  /\ \A i, j \in 1 .. Len(calls) :
       i < j => Rank(calls[i][1]) <= Rank(calls[j][1])
  /\ \A i \in PulseIdx :
       BusWriteDest(glbl_cp[i]) # "none"
         => masterVal[BusWriteDest(glbl_cp[i])] = bus.glbl_WRITE_BUS

C1_Witness ==
  /\ last = "tick"
  /\ slaveVal.SG = "TP10"
  /\ bus.glbl_WRITE_BUS # bus.glbl_READ_BUS
  /\ masterVal.G = bus.glbl_WRITE_BUS

\* C2: whatever the pulse list, the latest genAGCStates call ended with the
\* calls WP_SCL, WP_F17, WP_F13, WP_F10, WP_TPG in that order, after the four
\* sweeps, and WP_TPG was called exactly once.
C2_AlwaysPulsesLast ==
  LET n == Len(calls) IN
  /\ n = 4 * NPulses(glbl_cp, 0) + 5
  /\ SubSeq(calls, n - 4, n) =
       << << "WP", "SCL" >>, << "WP", "F17" >>, << "WP", "F13" >>,
          << "WP", "F10" >>, << "WP", "TPG" >> >>
  /\ \A i \in 1 .. n - 5 : calls[i][1] # "WP"

C2_Witness ==
  /\ last = "tick"
  /\ slaveVal.SG = "TP8"
  /\ NPulses(glbl_cp, 0) = 0
  /\ Len(calls) = 5
  /\ masterVal.SG = "TP9"

\* the bus values a call may find: the present ones with one bus changed, or
\* all buses saturated
BusVariants ==
  { [bus EXCEPT ![f] = v] :
      f \in {"glbl_READ_BUS", "glbl_WRITE_BUS", "ALU_BUS", "MEM_DATA_BUS"}, v \in Word }
  \cup { [bus EXCEPT !.MEM_PARITY_BUS = v] : v \in {0, 1} }
  \cup { [glbl_READ_BUS |-> WordMax, glbl_WRITE_BUS |-> WordMax, ALU_BUS |-> WordMax,
          MEM_DATA_BUS |-> WordMax, MEM_PARITY_BUS |-> 1] }

\* C3: a genAGCStates call, made now or after the next clkAGC, ends with the
\* same READ_BUS, WRITE_BUS, ALU bus, MEM_DATA_BUS and MEM_PARITY_BUS whatever
\* values the buses held when it started.
C3_NoBusCarry ==
  \A s \in {Core, clkAGC(Core)} : \A b \in BusVariants :
    genAGCStates([s EXCEPT !.bus = b]).bus = genAGCStates(s).bus

C3_Witness ==
  /\ last = "tick"
  /\ bus.glbl_READ_BUS # 0
  /\ bus.glbl_WRITE_BUS # 0
  /\ genAGCStates(clkAGC(Core)).bus.glbl_READ_BUS = 0
  /\ genAGCStates(clkAGC(Core)).bus.glbl_WRITE_BUS = 0

\* the ways of reordering n pulses
Perms ==
  [n \in 0 .. MAXPULSES |->
     { f \in [1 .. n -> 1 .. n] : \A a, b \in 1 .. n : f[a] = f[b] => a = b }]

Permuted(cp, f) ==
  [i \in 0 .. MAXPULSES - 1 |->
     IF i < NPulses(cp, 0) THEN cp[f[i + 1] - 1] ELSE cp[i]]

Latched(s) ==
  << s.bus.glbl_READ_BUS, s.bus.glbl_WRITE_BUS, s.masterVal, s.mem >>

RECURSIVE CallsOf(_, _)
CallsOf(phase, i) ==
  IF i > Len(calls) THEN << >>
  ELSE IF calls[i][1] = phase THEN << calls[i][2] >> \o CallsOf(phase, i + 1)
  ELSE CallsOf(phase, i + 1)

\* C6: glbl_cp[] has MAXPULSES entries with a NO_PULSE among them, and every
\* sweep of the latest call stopped at the first NO_PULSE: it dispatched the
\* entries before it and no other.
C6_Terminated ==
  /\ DOMAIN glbl_cp = 0 .. MAXPULSES - 1
  /\ \E i \in 0 .. MAXPULSES - 1 : glbl_cp[i] = NO_PULSE
  /\ \A phase \in {"R", "R_ALU", "R_ALU_OR", "W"} :
       CallsOf(phase, 1) = [i \in 1 .. NPulses(glbl_cp, 0) |-> glbl_cp[i - 1]]

C6_Witness ==
  /\ last = "tick"
  /\ NPulses(glbl_cp, 0) = 4
  /\ glbl_cp[4] = NO_PULSE

\* a strobe handled and not yet answered by a tick
Pending == IF singleClock THEN 1 ELSE 0

\* C7: with FCLK=0 since start, the strobes handled and the ticks performed
\* agree at every moment, but for the one strobe still pending: n strobes
\* give exactly n ticks and no tick happens without a strobe.
C7_OneTickPerStrobe == manual => owed = Pending

\* C8: with INST=0 and FCLK=0, k strobes (k up to ten) handled since the
\* timing generator stood in TP1 leave it in TP(1+k), the pending strobe
\* excepted: each strobe advances it by exactly one timing pulse, ten reach
\* TP11, and TP12 is not passed.
C8_TenStrobesToTP11 ==
  (stepsFromTP1 >= 0 /\ stepsFromTP1 <= 10)
    => slaveVal.SG = TPs[1 + stepsFromTP1 - Pending]

\* C9 as stated: from a state with RUN=0 no step is a tick and the timing
\* state stays as it is.
C9_HaltNoTick ==
  [][MON.RUN = 0 => (last' # "tick" /\ slaveVal'.SG = slaveVal.SG)]_vars

\* C9 amended: with RUN=0 the loop ticks only when FCLK=1 or a strobe is
\* pending, from the keyboard poll, and the batch ends with that one tick (no
\* batch continues while RUN=0); the tick latches the timing state prepared
\* by the previous genAGCStates; no step other than a tick changes a register
\* output.
C9_HaltOneTickPerPoll ==
  [][/\ pc' = "batch" => (MON'.RUN = 1 /\ MON'.FCLK = 1)
     /\ (MON.RUN = 0 /\ last' = "tick")
          => /\ MON.FCLK = 1 \/ singleClock
             /\ pc = "poll" /\ pc' = "poll"
             /\ genStateCntr' = BatchSize - 1
             /\ slaveVal'.SG = masterVal.SG
     /\ (MON.RUN = 0 /\ last' # "tick") => slaveVal' = slaveVal
    ]_vars

C9_Witness ==
  /\ last = "tick"
  /\ MON.RUN = 0
  /\ ~breakpointEnab
  /\ pc = "poll"
  /\ genStateCntr = BatchSize - 1
  /\ TPindex(slaveVal.SG) >= 2

\* C10: a batch performs at most 100 ticks: genStateCntr counts down by one
\* per tick from 100 and never passes 0, so every batch ends; a batch goes on
\* only while FCLK=1, RUN=1 and genStateCntr > 0, and ends before 100 ticks
\* only with RUN=0 or FCLK=0 after a tick; keys are handled only at the
\* keyboard poll, between batches.
C10_BatchBound ==
  [][/\ genStateCntr' \in 0 .. BatchSize
     /\ pc' = "batch" => (genStateCntr' > 0 /\ MON'.FCLK = 1 /\ MON'.RUN = 1)
     /\ last' = "tick"
          => genStateCntr' = (IF pc = "poll" THEN BatchSize ELSE genStateCntr) - 1
     /\ (last' = "tick" /\ pc' = "poll" /\ genStateCntr' > 0)
          => (MON'.RUN = 0 \/ MON'.FCLK = 0)
     /\ last' # "tick" => (pc = "poll" /\ pc' = "poll")
    ]_vars

C10_Witness ==
  /\ last = "tick"
  /\ pc = "poll"
  /\ genStateCntr = 0
  /\ MON.FCLK = 1
  /\ MON.RUN = 1

\* C11: with the watch off, a tick that takes RUN from 1 to 0 (the breakpoint
\* hit) leaves the timing generator in TP1: the breakpoint halts only at TP1.
C11_BreakOnlyAtTP1 ==
  [][(last' = "tick" /\ breakpointEnab /\ ~watchEnab
        /\ MON.RUN = 1 /\ MON'.RUN = 0)
       => slaveVal'.SG = "TP1"]_vars

\* C12: on every tick with the watch enabled the word at watchAddr is compared
\* with oldWatchValue: RUN is 0 after the tick if they differ, RUN is as
\* before if they are equal and the breakpoint does not hit, and oldWatchValue
\* is the word after the tick; 'y' leaves the switches alone, toggles
\* watchEnab and, when enabling, reads the word at the entered address.
C12_WatchHalts ==
  [][/\ (last' = "tick" /\ watchEnab)
          => /\ oldWatchValue' = readMemory([mem |-> mem'], watchAddr)
             /\ mem'[watchAddr] # oldWatchValue => MON'.RUN = 0
             /\ (/\ mem'[watchAddr] = oldWatchValue
                 /\ ~(breakpointEnab /\ breakpoint = slaveVal'.S))
                  => MON'.RUN = MON.RUN
     /\ last' = "y"
          => /\ MON' = MON
             /\ watchEnab' = ~watchEnab
             /\ watchEnab' => oldWatchValue' = readMemory(Core, watchAddr')
    ]_vars

\* a tick has halted a running machine through the watch: 'p', 'r' and 'y'
\* are the three keys pressed, so RUN was 1 and no breakpoint is set
C12_Witness ==
  /\ last = "tick"
  /\ watchEnab /\ ~breakpointEnab
  /\ nkeys = MaxKeys
  /\ MON.PURST = 0
  /\ MON.RUN = 0
  /\ TPindex(slaveVal.SG) >= 2
  /\ oldWatchValue # 0
  /\ oldWatchValue = mem[watchAddr]

\* the breakpoint and the watch conditions of the tick being taken
BreakpointHit == breakpointEnab /\ breakpoint = slaveVal'.S
WatchHit == watchEnab /\ mem'[watchAddr] # oldWatchValue

\* C13: RUN goes from 1 to 0 only in the 'r' step or in a tick on which the
\* breakpoint or the watch hits, from 0 to 1 only in the 'r' step, and the
\* 'r' step always flips it.
C13_RunChanges ==
  [][/\ (MON.RUN = 1 /\ MON'.RUN = 0)
          => \/ last' = "r"
             \/ last' = "tick" /\ (BreakpointHit \/ WatchHit)
     /\ (MON.RUN = 0 /\ MON'.RUN = 1) => last' = "r"
     /\ last' = "r" => MON'.RUN = 1 - MON.RUN
     /\ MON'.RUN \in {0, 1}
    ]_vars

\* a running machine halted by the breakpoint: 'p', 'r' and 'b' are the three
\* keys pressed, and the breakpoint address was reached after TP1
C13_Witness ==
  /\ last = "tick"
  /\ breakpointEnab /\ ~watchEnab
  /\ nkeys = MaxKeys
  /\ MON.PURST = 0
  /\ MON.RUN = 0
  /\ TPindex(slaveVal.SG) >= 2
  /\ breakpoint = slaveVal.S
  /\ breakpoint # 0

\* a file of 'address data' records: an even number of tokens, octal digits
\* only
WellFormed(f) ==
  /\ Len(f) % 2 = 0
  /\ \A i \in DOMAIN f : OctPrefixLen(f[i], 1) = Len(f[i])

\* C14: when the file does not open or is not well formed, loadMemory makes
\* no writeMemory call and the memory is as it was at the call.
C14_BadFileNoWrite ==
  (~ld.opens \/ ~WellFormed(ld.file))
    => (ld.writes = 0 /\ ld.mem = ld.mem0)

\* the images whose object file is the file being loaded
ImagesOfFile == { img \in Images : FileOf(img) = ld.file }

\* C15: while the file of an image, or the file saveMemory writes for the
\* memory at the call, is being loaded, every pass of the loop consumes one
\* record; when loadMemory is done, readMemory returns the loaded word at every
\* address of the image, and the memory saved and loaded back is as it was.
C15_RoundTrip ==
  /\ (ld.pc = "loop" /\ ld.opens
        /\ (ImagesOfFile # {} \/ ld.file = saveMemory(ld.mem0, LoadLo)))
       => 2 * ld.writes = Len(ld.file) - Len(ld.rest)
  /\ (ld.pc = "done" /\ ld.opens)
       => /\ \A img \in ImagesOfFile : \A i \in DOMAIN img :
               readMemory([mem |-> ld.mem], img[i].addr) = img[i].word
          /\ ld.file = saveMemory(ld.mem0, LoadLo) => ld.mem = ld.mem0

\* an image of two records with the words 8 and 9 loaded over a memory that
\* held other words
C15_Witness ==
  /\ ld.pc = "done"
  /\ \E img \in ImagesOfFile :
       /\ Len(img) = MaxRecords
       /\ \E i, j \in DOMAIN img : img[i].word = 8 /\ img[j].word = 9
  /\ ld.mem # ld.mem0
  /\ ld.mem0[LoadLo] # 0
  /\ ld.writes = MaxRecords

\* the request lines proper
LinesOf(r) == [rupt |-> r.rupt, pcUp |-> r.pcUp, pcDn |-> r.pcDn]

\* the entry is a decimal number
IsNumber(e) == e # << >> /\ \A i \in DOMAIN e : e[i] \in 0 .. 9

\* the line a command names with a valid entry: priority 1..5 for 'i', cell
\* 0..6 for ']' and '['; NoLine for any other entry
LineNamed(key, e) ==
  IF ~IsNumber(e) THEN NoLine
  ELSE IF key = "i"
  THEN (IF DecPrefix(e, 1, 0) \in 1 .. NRupt
        THEN [arr |-> "rupt", k |-> DecPrefix(e, 1, 0) - 1] ELSE NoLine)
  ELSE (IF DecPrefix(e, 1, 0) \in 0 .. NCtr - 1
        THEN [arr |-> IF key = "]" THEN "pcUp" ELSE "pcDn", k |-> DecPrefix(e, 1, 0)]
        ELSE NoLine)

\* C16: a command 'i', ']' or '[' writes nothing outside rupt[0..4],
\* pcUp[0..6] and pcDn[0..6]; with an entry that names a line it raises that
\* line, with any other entry it leaves every request line as it was; it
\* changes nothing else.
C16_OnlyExistingLines ==
  [][req'.n # req.n
       => LET line == LineNamed(last', req'.entry) IN
          /\ ~req'.oob
          /\ LinesOf(req') =
               IF line = NoLine THEN LinesOf(req)
               ELSE [LinesOf(req) EXCEPT ![line.arr][line.k] = 1]
          /\ UNCHANGED << coreVars, driverVars, ld >>
    ]_vars

ReqArrays == {"rupt", "pcUp", "pcDn"}

C18_InvalidKeyOnlyEchoed ==
  [][last' = "other" => UNCHANGED << coreVars, driverVars, ld, req, par >>]_vars

\* an invalid key pressed with RUN set, out of the power-on state
C18_Witness ==
  /\ last = "other"
  /\ MON.RUN = 1
  /\ slaveVal.SG # "PWRON"

\* C19: the key 'x' flips the F13 tap and the key 'z' flips the F17 tap,
\* whatever the scaler count and SCL_ENAB are.
C19_KeysToggleTaps ==
  [][/\ last' = "x" => slaveVal'.F13 = 1 - slaveVal.F13
     /\ last' = "z" => slaveVal'.F17 = 1 - slaveVal.F17
    ]_vars

\* C20: the display only reads.  The key ';' clears the parity alarm and
\* then calls MON::displayAGC: after it PALM is clear, the loaded locations,
\* the registers, the buses, the memory words, the monitor inputs and the
\* request lines are as before the key, also when a displayed location was
\* never loaded.
C20_DisplayOnlyReads ==
  [][last' = ";" => /\ par' = CLR_PALM(par)
                    /\ UNCHANGED << coreVars, driverVars, req >>
    ]_vars

\* C21: a call of updateAGCDisplay made while dskyChanged is true calls
\* MON::displayAGC, whatever FCLK, RUN and the timing state are.
C21_DskyForcesDisplay ==
  [][(upd'.n = upd.n + 1 /\ upd.dskyChanged) => upd'.shown]_vars

SweepPhases == {"R", "R_ALU", "R_ALU_OR", "W"}

\* the pulses the latest genAGCStates call handed to the handler of a sweep
Dispatched(phase) ==
  LET cs == SelectSeq(calls, LAMBDA c : c[1] = phase)
  IN  [i \in 1 .. Len(cs) |-> cs[i][2]]

\* C22: in the latest genAGCStates call each of the four sweeps dispatched
\* the entries of glbl_cp[] before its first NO_PULSE, in index order, each
\* once; so the four sweeps dispatched the same sequence.
C22_SameSequence ==
  \A phase \in SweepPhases :
    Dispatched(phase) = [i \in 1 .. NPulses(glbl_cp, 0) |-> glbl_cp[i - 1]]

\* a tick with three pulses, one of them latching a register in the write
\* sweep, the buses not zero
C22_Witness ==
  /\ last = "tick"
  /\ NPulses(glbl_cp, 0) = 3
  /\ \E i \in PulseIdx : BusWriteDest(glbl_cp[i]) # "none"
  /\ bus.glbl_WRITE_BUS # 0
  /\ Dispatched("R") = Dispatched("W")

\* C23: a tick of the clock loop that ends with the effective address equal
\* to an enabled breakpoint leaves RUN = 0 and is the last tick of its batch;
\* with the breakpoint disabled a tick changes RUN only when the watch hits;
\* the key 'b' flips breakpointEnab and leaves RUN alone.
C23_BreakpointHalts ==
  [][/\ (last' = "tick" /\ breakpointEnab /\ breakpoint = slaveVal'.S)
          => MON'.RUN = 0 /\ pc' = "poll"
     /\ (last' = "tick" /\ ~breakpointEnab /\ ~WatchHit)
          => MON'.RUN = MON.RUN
     /\ last' = "tick" => UNCHANGED << breakpointEnab, breakpoint >>
     /\ last' = "b"
          => /\ breakpointEnab' = ~breakpointEnab
             /\ MON' = MON
             /\ ~breakpointEnab' => breakpoint' = breakpoint
    ]_vars

\* the fast clock was started with RUN set and a breakpoint at the address
\* the first tick ends on: the batch ended after that one tick, halted
C23_Witness ==
  /\ last = "tick"
  /\ pc = "poll"
  /\ breakpointEnab /\ ~watchEnab
  /\ breakpoint = slaveVal.S
  /\ MON.FCLK = 1
  /\ MON.RUN = 0
  /\ genStateCntr = BatchSize - 1
  /\ nkeys = MaxKeys

MonitorInputs == {"PURST", "RUN", "STEP", "INST", "FCLK", "SA", "SCL_ENAB"}

\* the monitor inputs after the switch of a key is flipped
Flipped(m, key) == [m EXCEPT ![SwitchOf(key)] = (@ + 1) % 2]

\* the monitor inputs are the seven switches, each 0 or 1, and before the
\* first step they are those of MON.cpp; flipping a switch twice gives the
\* inputs back
InputsBinary ==
  /\ DOMAIN MON = MonitorInputs
  /\ \A f \in MonitorInputs : MON[f] \in {0, 1}
  /\ last = "init"
       => MON = [PURST |-> 1, RUN |-> 0, STEP |-> 0, INST |-> 1, FCLK |-> 0,
                 SA |-> 0, SCL_ENAB |-> 1]
  /\ \A key \in SwitchKeys : Flipped(Flipped(MON, key), key) = MON

\* a switch key flips its own input and leaves the others, F2 sets FCLK to 0
\* and F4 sets it to 1, leaving the others
KeysFlip ==
  /\ last' \in SwitchKeys
       => /\ MON' = Flipped(MON, last')
          /\ MON'[SwitchOf(last')] = 1 - MON[SwitchOf(last')]
          /\ \A f \in MonitorInputs \ {SwitchOf(last')} : MON'[f] = MON[f]
  /\ last' = "F2" => MON' = [MON EXCEPT !.FCLK = 0]
  /\ last' = "F4" => MON' = [MON EXCEPT !.FCLK = 1]

C25_StepReleasedAtTP1 ==
  [][/\ (last' \in {"idle", "tick"} /\ pc' = "poll" /\ slaveVal'.SG = "TP1")
          => MON'.STEP = 0
     /\ (MON.STEP = 1 /\ MON'.STEP = 0)
          => \/ last' = "s"
             \/ last' \in {"idle", "tick"} /\ pc' = "poll" /\ slaveVal'.SG = "TP1"
     /\ (MON.STEP = 0 /\ MON'.STEP = 1) => last' = "s"
    ]_vars

\* STEP was set with the timing generator in TP1 and the idle polling loop
\* has released it
C25_Witness ==
  /\ last = "idle"
  /\ slaveVal.SG = "TP1"
  /\ MON.STEP = 0
  /\ nkeys = MaxKeys

\* the records of a file: its pairs of tokens, an incomplete last one counted
Records(f) == (Len(f) + 1) \div 2

\* C26: whatever the file holds, loadMemory makes at most one writeMemory call
\* per record of the file, so its read loop ends after that many passes.
C26_LoadTerminates == ld.writes <= Records(ld.file)

\* the keys whose handler calls genAGCStates without a clkAGC before it
RefreshKeys == {"d", "x", "z", "F2", "F4"} \cup SwitchKeys

\* the latched state: what the registers show, and the memory words
LatchedState(s) == << s.slaveVal, s.mem >>

\* C27: a key whose handler calls genAGCStates without clkAGC leaves the
\* timing state, every register as read and every memory word as they were;
\* after 'd', 'x', 'z', F2 or F4 the same command issued again changes
\* nothing at all of the machine; the registers as read change only in a
\* tick, where they take what clkAGC latches, the timing state among them.
C27_RefreshDoesNotAdvance ==
  [][/\ last' \in RefreshKeys
          => /\ slaveVal'.SG = slaveVal.SG
             /\ LatchedState(Core') = LatchedState(Core)
     /\ last' \in {"d", "x", "z"} => genAGCStates(Core') = Core'
     /\ last' \in {"F2", "F4"}
          => genAGCStates([Core' EXCEPT !.MON.FCLK = MON'.FCLK]) = Core'
     /\ slaveVal' # slaveVal
          => last' = "tick" /\ slaveVal' = clkAGC(Core).slaveVal
     /\ mem' # mem => last' = "tick"
    ]_vars

\* the display refreshed in the middle of an instruction, after a tick
\* halted the machine
C27_Witness ==
  /\ last = "d"
  /\ TPindex(slaveVal.SG) >= 2
  /\ masterVal.SG # slaveVal.SG
  /\ bus.glbl_WRITE_BUS # 0

\* the indices of the lines whose first five columns are the CADR
Matches ==
  { k \in 0 .. Len(lst.file) - 1 : FirstCols(lst.file[k + 1]) = Format5o(lst.cadr) }

FirstMatch == CHOOSE i \in Matches : \A k \in Matches : i <= k

\* the lines the claim has displayed for the first matching line i
Displayed(i) ==
  LET start == IF i > 9 THEN i - 9 ELSE 0
      cnt   == Min(maxLines, Len(lst.file) - start)
  IN  [m \in 1 .. cnt |->
         << IF start + m - 1 \in Matches THEN ">" ELSE " ", start + m - 1 >>]

\* C28: when showSourceCode is done it has printed nothing if no line has the
\* CADR in its first five columns, and otherwise the lines from line
\* max(0, i-9) on, i the first such line, at most 23 of them in file order,
\* each marked '>' if its first five columns are the CADR and ' ' if not, so
\* line i is printed after exactly min(i, 9) lines; nothing is printed when
\* the file does not open; the loop makes at most one pass per line read
\* before the match, one per line printed and one more.
C28_SourceWindow ==
  /\ lst.pc \in {"idle", "call", "failed"} => lst.out = << >>
  /\ Len(lst.out) <= maxLines
  /\ lst.passes <= Len(lst.file) + maxLines + 1
  /\ lst.pc = "done"
       => IF Matches = {} THEN lst.out = << >>
          ELSE /\ lst.out = Displayed(FirstMatch)
               /\ lst.out[Min(FirstMatch, 9) + 1] = << ">", FirstMatch >>

\* a listing whose first matching line is past line 9 and is followed by a
\* second one, with more than 23 lines from the window's start on
C28_Witness ==
  /\ lst.pc = "done"
  /\ Matches # {}
  /\ FirstMatch > 9
  /\ Matches # {FirstMatch}
  /\ Len(lst.out) = maxLines
  /\ lst.out[1][2] = FirstMatch - 9
  /\ Len(lst.file) > FirstMatch - 9 + maxLines
  /\ lst.cadr = 8

====
